---- MODULE Spec2Model ----
(***************************************************************************)
(* Model of the bike tracker control core (src/bike_tracker.hpp) with the  *)
(* GPS power flag of gps_t (src/unnamed/part_000) and the motion latch of  *)
(* movement_detector_t (src/movement.hpp).                                 *)
(*                                                                         *)
(* One call of bike_tracker_t::loop() is a tick.  A tick is single         *)
(* threaded; the only concurrent writer is on_interrupt(), which may run   *)
(* between any two statements of a tick.  The tick is therefore cut at     *)
(* the three places where the interleaving is observable: after the clock  *)
(* and the latch are read (pc = "probe"), after the probe block            *)
(* (pc = "send"), after the radio block (pc = "end").  At every pc exactly *)
(* one tick action is enabled, so a tick always runs its blocks in order.  *)
(*                                                                         *)
(* Units.  Times are whole seconds (RTCZero::getY2kEpoch).  Coordinates    *)
(* are metres on a local plane (the haversine distance of gps_t::distance  *)
(* is the plane distance at this scale), altitudes are metres.  distance   *)
(* is in metres, alt_gain in fifths of a metre (GPS_ALT_SMOOTHER_FACTOR is *)
(* 1/5), speeds in millimetres per second.                                 *)
(***************************************************************************)
EXTENDS Integers, Sequences, FiniteSets, TLC

(***************************************************************************)
(* Program constants.                                                      *)
(***************************************************************************)
IDLE_THRESHOLD_M == 4 * 1000        \* metres ...
IDLE_THRESHOLD_S == 3600            \* ... per this many seconds (4 kph)
GPS_RETRY_DELAY == 5
RADIO_RETRY_DELAY == 60
GPS_ALT_SMOOTHER_DIV == 5           \* GPS_ALT_SMOOTHER_FACTOR = 0.2 = 1/5
TRACKING_GPS_PROBE_DELAY == 20
TRACKING_RADIO_DELAY == 3 * 60
TRACKING_IDLE_PROBES == 9
TRACKING_IDLE_BUFFER_SIZE == 12
POWER_SAVE_GPS_PROBE_DELAY == 60 * 60
SLEEP_MIN_MS == 500

(***************************************************************************)
(* Bounds of the model.                                                    *)
(***************************************************************************)
MaxTime == 4000        \* no tick of Spec starts after this clock value
MaxMoving == 1         \* MOVING probes in a run of Spec
MaxFaults == 2         \* unusable samples, unacknowledged sends and motion
                       \* interrupts in a run of Spec
IdleMaxMoving == 4     \* MOVING probes in a run of SpecIdle
IdleMaxFaults == 1     \* the same events as MaxFaults, in a run of SpecIdle
IdleMaxTime == 300     \* no tick of SpecIdle starts after this clock value
EncodeMaxMoving == 0   \* MOVING probes in a run of SpecEncode
EncodeMaxFaults == 1   \* the same events as MaxFaults, in a run of SpecEncode
EncodeMaxTime == 400   \* no tick of SpecEncode starts after this clock value
ProbeMaxMoving == 1    \* MOVING probes in a run of SpecProbe
ProbeMaxFaults == 1    \* the same events as MaxFaults, in a run of SpecProbe
ProbeMaxTime == 400    \* no tick of SpecProbe starts after this clock value
LiveMaxMoving == 1     \* MOVING probes in a run of SpecLive
LiveMaxFaults == 2     \* the same events as MaxFaults, in a run of SpecLive
LiveMaxTime == 400     \* no tick of SpecLive starts after this clock value
OutageMaxMoving == 1   \* MOVING probes in a run of SpecOutage
OutageMaxFaults == 3   \* the same events as MaxFaults, in a run of SpecOutage
OutageMaxTime == 400   \* no tick of SpecOutage starts after this clock value
StillMaxFaults == 1    \* unacknowledged sends in a run of SpecStill
StillMaxTime == 20000  \* no tick of SpecStill starts after this clock value

(***************************************************************************)
(* Inputs: the samples the GPS may return.                                 *)
(***************************************************************************)
Coordinates ==
    {[lat |-> 1000, lng |-> 0, alt |-> 100],
     [lat |-> 6000, lng |-> 0, alt |-> 105]}

NoCoordinates == [lat |-> 0, lng |-> 0, alt |-> 0]

Samples ==
    [has_gnss_fix : {TRUE}, n_satellites : {4}, coordinates : Coordinates]
    \cup [has_gnss_fix : {TRUE}, n_satellites : {0}, coordinates : {NoCoordinates}]
    \cup [has_gnss_fix : {FALSE}, n_satellites : {0, 4}, coordinates : {NoCoordinates}]

nullopt == -1          \* etl::nullopt of optional<uint32_t>; times are >= 0

FLT_INF == 1000 * 1000 * 1000      \* x / 0.0f for x > 0
FLT_NAN == 0 - 1                   \* 0.0f / 0.0f

(***************************************************************************)
(* The telemetry message.  The scaled fields are one byte each.  The       *)
(* conversion of an infinite value to a byte is undefined: UB_BYTES are    *)
(* the outcomes of a saturating and of a zeroing conversion.               *)
(***************************************************************************)
MSG_ALT_DIV == 8
MSG_DIST_DIV == 16
MSG_ALT_GAIN_DIV == 2
MSG_MAX_SPEED_DIV == 16
BYTE_RANGE == 256

UB_BYTES == {0, 255}

NoMsg == [lat |-> 0, lng |-> 0, alt |-> 0, dist |-> 0, alt_gain |-> 0,
          max_speed |-> 0]

VARIABLES
    state,              \* state_
    pc,                 \* position inside loop(): "loop", "probe", "send", "end"
    now,                \* the clock value read by the current tick
    movement,           \* local of loop_power_save
    latched,            \* value of detector.detected() read by this tick
    result,             \* probe result of this tick, "NONE" if no probe
    response,           \* radio response of this tick: "NONE", "ACK", "NACK"
    sleep_ms,           \* duration of the sleep that ended the last tick, 0 if none
    next_probe_time, has_position, last_position, last_position_time,
    smoothed_alt, distance, alt_gain, max_speed, idle_probes, n_idle,
    last_msg_time, next_msg_time,
    detected_,          \* movement_detector_t::detected_
    attached,           \* the interrupt handler is attached to the pin
    powered_on_,        \* gps_t::powered_on_
    pushed,             \* history: values pushed since idle_probes was last cleared
    latch_age,          \* history: ticks started since an interrupt set the latch
                        \* in POWER_SAVE, -1 when no such interrupt is pending
    msg,                \* local of send_location_msg: the message handed to
                        \* the radio by this tick, NoMsg if none
    clock_back,         \* history: the clock value read by this tick is lower
                        \* than the one read by the previous tick
    moving_left, faults_left, horizon
                        \* what the bounds of the run still allow

gps_vars == <<next_probe_time, has_position, last_position, last_position_time,
              smoothed_alt, distance, alt_gain, max_speed, idle_probes, n_idle,
              powered_on_>>

radio_vars == <<last_msg_time, next_msg_time>>

vars == <<state, pc, now, movement, latched, result, response, sleep_ms,
          next_probe_time, has_position, last_position, last_position_time,
          smoothed_alt, distance, alt_gain, max_speed, idle_probes, n_idle,
          last_msg_time, next_msg_time, detected_, attached, powered_on_,
          pushed, latch_age, msg, clock_back, moving_left, faults_left, horizon>>

(***************************************************************************)
(* Pure helpers.                                                           *)
(***************************************************************************)
Min(a, b) == IF a <= b THEN a ELSE b

Max(a, b) == IF a >= b THEN a ELSE b

Abs(a) == IF a >= 0 THEN a ELSE 0 - a

\* The integer square root of t[1], searched between t[2] and t[3].
SqrtBetween[t \in Int \X Int \X Int] ==
    LET n == t[1]
        lo == t[2]
        hi == t[3]
        mid == (lo + hi + 1) \div 2
    IN IF lo >= hi THEN lo
       ELSE IF mid * mid <= n THEN SqrtBetween[<<n, mid, hi>>]
                              ELSE SqrtBetween[<<n, lo, mid - 1>>]

Sqrt(n) == SqrtBetween[<<n, 0, Min(n, 46340)>>]

\* Mutant of Distance: the ignore_alt argument is always taken as true.
Distance_IgnoresAlt(coord_a, coord_b, ignore_alt) ==
    LET delta_lat == coord_a.lat - coord_b.lat
        delta_lng == coord_a.lng - coord_b.lng
    IN Sqrt(delta_lat * delta_lat + delta_lng * delta_lng)

\* gps_t::distance
Distance(coord_a, coord_b, ignore_alt) ==
    LET delta_lat == coord_a.lat - coord_b.lat
        delta_lng == coord_a.lng - coord_b.lng
        horiz_dist == Sqrt(delta_lat * delta_lat + delta_lng * delta_lng)
        vert_dist == Abs(coord_a.alt - coord_b.alt)
    IN IF ignore_alt THEN horiz_dist
       ELSE Sqrt(horiz_dist * horiz_dist + vert_dist * vert_dist)

\* now - gps_.last_position_time is unsigned: with a clock behind the last
\* position it wraps to a value beyond 2^31 seconds.
DELTA_WRAPPED_S == 2147483647

\* float division dist / delta_secs, in mm/s
FDiv(dist, delta_secs) ==
    IF delta_secs = 0
    THEN IF dist = 0 THEN FLT_NAN ELSE FLT_INF
    ELSE (dist * 1000) \div delta_secs

\* Mutant of IsIdle: <= instead of <.
IsIdle_Inclusive(horiz_dist, delta_secs) ==
    /\ delta_secs # 0
    /\ \/ delta_secs = DELTA_WRAPPED_S
       \/ horiz_dist * IDLE_THRESHOLD_S <= IDLE_THRESHOLD_M * delta_secs

\* horiz_speed < IDLE_THRESHOLD, false for an infinite or NaN speed
IsIdle(horiz_dist, delta_secs) ==
    /\ delta_secs # 0
    /\ \/ delta_secs = DELTA_WRAPPED_S
       \/ horiz_dist * IDLE_THRESHOLD_S < IDLE_THRESHOLD_M * delta_secs

\* the local alt_gain of probe_gps, in fifths of a metre:
\* smoothed = old * (1 - 1/5) + raw * 1/5; smoothed > old ? smoothed - old : 0
AltGain(old_smoothed, raw) ==
    LET smoothed5 == old_smoothed * (GPS_ALT_SMOOTHER_DIV - 1) + raw
    IN IF smoothed5 > old_smoothed * GPS_ALT_SMOOTHER_DIV
       THEN smoothed5 - old_smoothed * GPS_ALT_SMOOTHER_DIV
       ELSE 0

\* speed > gps_.max_speed ? speed : gps_.max_speed
NewMaxSpeed(speed, old_max) ==
    IF speed # FLT_NAN /\ speed > old_max THEN speed ELSE old_max

\* Mutant of Round: the quotient is truncated.
Round_Truncates(value, divisor) == value \div divisor

\* round(value / divisor) for value >= 0: halves round away from zero
Round(value, divisor) == (2 * value + divisor) \div (2 * divisor)

\* Mutant of Byte: the field saturates.
Byte_Saturates(scaled) == IF scaled >= BYTE_RANGE THEN BYTE_RANGE - 1 ELSE scaled

\* narrowing of a scaled value to the 8-bit field
Byte(scaled) == scaled % BYTE_RANGE

\* location_msg_t(lat, lng, alt, dist, alt_gain, max_speed): alt and dist in
\* metres, alt_gain in fifths of a metre, max_speed in mm/s; `ub` is the byte
\* an infinite max_speed converts to.
LocationMsgT(lat_, lng_, alt_, dist_, alt_gain_, max_speed_, ub) ==
    [lat |-> lat_,
     lng |-> lng_,
     alt |-> Byte(Round(alt_, MSG_ALT_DIV)),
     dist |-> Byte(Round(dist_, MSG_DIST_DIV)),
     alt_gain |-> Byte(Round(alt_gain_, MSG_ALT_GAIN_DIV * GPS_ALT_SMOOTHER_DIV)),
     max_speed |-> IF max_speed_ = FLT_INF THEN ub
                   ELSE Byte(Round(max_speed_, MSG_MAX_SPEED_DIV * 1000))]

CountTrue(q) == Cardinality({i \in 1..Len(q) : q[i]})

LastN(s, n) == IF Len(s) <= n THEN s ELSE SubSeq(s, Len(s) - n + 1, Len(s))


(***************************************************************************)
(* Initial state: the object `tracker` has static storage, so the members  *)
(* without an initializer are zero, the others take their initializers.    *)
(* No interrupt is attached before the first to_power_save().              *)
(***************************************************************************)
Boot ==
    /\ state = "TRACKING"
    /\ pc = "loop"
    /\ now = 0
    /\ movement = FALSE
    /\ latched = FALSE
    /\ result = "NONE"
    /\ response = "NONE"
    /\ sleep_ms = 0
    /\ next_probe_time = 0
    /\ has_position = FALSE
    /\ last_position = [has_gnss_fix |-> FALSE, n_satellites |-> 0,
                        coordinates |-> NoCoordinates]
    /\ last_position_time = 0
    /\ smoothed_alt = 0
    /\ distance = 0
    /\ alt_gain = 0
    /\ max_speed = 0
    /\ idle_probes = << >>
    /\ n_idle = 0
    /\ last_msg_time = 0
    /\ next_msg_time = TRACKING_RADIO_DELAY
    /\ detected_ = FALSE
    /\ attached = FALSE
    /\ powered_on_ = TRUE
    /\ pushed = << >>
    /\ latch_age = 0 - 1
    /\ msg = NoMsg
    /\ clock_back = FALSE

Init ==
    /\ Boot
    /\ moving_left = MaxMoving
    /\ faults_left = MaxFaults
    /\ horizon = MaxTime

(***************************************************************************)
(* movement_detector_t::on_interrupt: runs whenever the handler is         *)
(* attached, between any two steps of the main loop.                       *)
(***************************************************************************)
OnInterrupt ==
    /\ attached
    /\ ~detected_
    /\ faults_left > 0
    /\ detected_' = TRUE
    /\ latch_age' = 0
    /\ faults_left' = faults_left - 1
    /\ UNCHANGED <<horizon, clock_back, msg, state, pc, now, movement, latched, result, response, sleep_ms,
                   gps_vars, radio_vars, attached, pushed, moving_left>>

(***************************************************************************)
(* The clock values the next tick may read.  The previous tick's sleep has *)
(* elapsed (DEBUG is true: delay() is not cut short) and the tick starts   *)
(* in the second the sleep ends.  A tick that ended without sleeping, or   *)
(* slept a fraction of a second, is followed by a tick in the same second  *)
(* or in the next one.                                                     *)
(***************************************************************************)
NextClock ==
    LET slept == sleep_ms \div 1000
        extra == IF sleep_ms % 1000 = 0 /\ sleep_ms > 0 THEN 0 ELSE 1
    IN {t \in (now + slept)..(now + slept + extra) : t <= horizon}

(***************************************************************************)
(* loop(): reads the clock and dispatches on state_; loop_power_save first *)
(* reads the latch into its local `movement`.                              *)
(***************************************************************************)
Loop ==
    /\ pc = "loop"
    /\ \E t \in NextClock : now' = t
    /\ latched' = (state = "POWER_SAVE" /\ detected_)
    /\ movement' = (state = "POWER_SAVE" /\ detected_)
    /\ result' = "NONE"
    /\ response' = "NONE"
    /\ sleep_ms' = 0
    /\ pc' = "probe"
    /\ latch_age' = IF latch_age >= 0 THEN latch_age + 1 ELSE latch_age
    /\ msg' = NoMsg
    /\ clock_back' = FALSE
    /\ UNCHANGED <<horizon, state, gps_vars, radio_vars, detected_, attached, pushed,
                   moving_left, faults_left>>

\* Mutant of ProbeGps: a fix without satellites counts as usable.
ProbeGps_IgnoresSatellites(position) ==
    LET success == position.has_gnss_fix
        delta_secs == IF now >= last_position_time
                      THEN now - last_position_time
                      ELSE DELTA_WRAPPED_S
        dist == Distance(position.coordinates, last_position.coordinates, FALSE)
        speed == FDiv(dist, delta_secs)
        gain == AltGain(smoothed_alt, position.coordinates.alt)
        horiz_dist == Distance(position.coordinates, last_position.coordinates, TRUE)
        is_idle == IsIdle(horiz_dist, delta_secs)
        unchanged == [result |-> "NO_FIX", has_position |-> has_position,
                      last_position |-> last_position,
                      last_position_time |-> last_position_time,
                      smoothed_alt |-> smoothed_alt, distance |-> distance,
                      alt_gain |-> alt_gain, max_speed |-> max_speed]
        fixed == [unchanged EXCEPT !.has_position = TRUE,
                                   !.last_position = position,
                                   !.last_position_time = now]
    IN IF ~success THEN unchanged
       ELSE IF ~has_position
            THEN [fixed EXCEPT !.result = "UNKNOWN",
                               !.smoothed_alt = position.coordinates.alt]
       ELSE IF is_idle
            THEN [fixed EXCEPT !.result = "IDLE"]
       ELSE [fixed EXCEPT !.result = "MOVING",
                          !.distance = distance + dist,
                          !.alt_gain = alt_gain + gain,
                          !.max_speed = NewMaxSpeed(speed, max_speed)]

\* Mutant of ProbeGps: the accumulation is not skipped for an idle probe.
ProbeGps_AccumulatesIdle(position) ==
    LET success == position.has_gnss_fix /\ position.n_satellites > 0
        delta_secs == IF now >= last_position_time
                      THEN now - last_position_time
                      ELSE DELTA_WRAPPED_S
        dist == Distance(position.coordinates, last_position.coordinates, FALSE)
        speed == FDiv(dist, delta_secs)
        gain == AltGain(smoothed_alt, position.coordinates.alt)
        horiz_dist == Distance(position.coordinates, last_position.coordinates, TRUE)
        is_idle == IsIdle(horiz_dist, delta_secs)
        unchanged == [result |-> "NO_FIX", has_position |-> has_position,
                      last_position |-> last_position,
                      last_position_time |-> last_position_time,
                      smoothed_alt |-> smoothed_alt, distance |-> distance,
                      alt_gain |-> alt_gain, max_speed |-> max_speed]
        fixed == [unchanged EXCEPT !.has_position = TRUE,
                                   !.last_position = position,
                                   !.last_position_time = now]
    IN IF ~success THEN unchanged
       ELSE IF ~has_position
            THEN [fixed EXCEPT !.result = "UNKNOWN",
                               !.smoothed_alt = position.coordinates.alt]
       ELSE [fixed EXCEPT !.result = IF is_idle THEN "IDLE" ELSE "MOVING",
                          !.distance = distance + dist,
                          !.alt_gain = alt_gain + gain,
                          !.max_speed = NewMaxSpeed(speed, max_speed)]

(***************************************************************************)
(* probe_gps(now) for the sample `position`: the result and the new values *)
(* of the members it writes.  gps_.smoothed_alt is written only in the     *)
(* first-fix branch: the smoothed value of the other branch is a block     *)
(* local.                                                                  *)
(***************************************************************************)
ProbeGps(position) ==
    LET success == position.has_gnss_fix /\ position.n_satellites > 0
        delta_secs == IF now >= last_position_time
                      THEN now - last_position_time
                      ELSE DELTA_WRAPPED_S
        dist == Distance(position.coordinates, last_position.coordinates, FALSE)
        speed == FDiv(dist, delta_secs)
        gain == AltGain(smoothed_alt, position.coordinates.alt)
        horiz_dist == Distance(position.coordinates, last_position.coordinates, TRUE)
        is_idle == IsIdle(horiz_dist, delta_secs)
        unchanged == [result |-> "NO_FIX", has_position |-> has_position,
                      last_position |-> last_position,
                      last_position_time |-> last_position_time,
                      smoothed_alt |-> smoothed_alt, distance |-> distance,
                      alt_gain |-> alt_gain, max_speed |-> max_speed]
        fixed == [unchanged EXCEPT !.has_position = TRUE,
                                   !.last_position = position,
                                   !.last_position_time = now]
    IN IF ~success THEN unchanged
       ELSE IF ~has_position
            THEN [fixed EXCEPT !.result = "UNKNOWN",
                               !.smoothed_alt = position.coordinates.alt]
       ELSE IF is_idle
            THEN [fixed EXCEPT !.result = "IDLE"]
       ELSE [fixed EXCEPT !.result = "MOVING",
                          !.distance = distance + dist,
                          !.alt_gain = alt_gain + gain,
                          !.max_speed = NewMaxSpeed(speed, max_speed)]

\* The samples the bounds of the run still allow.
Allowed(position) ==
    LET r == ProbeGps(position).result
    IN /\ r = "MOVING" => moving_left > 0
       /\ r = "NO_FIX" => faults_left > 0

\* Mutant of Probed: gps_.has_position = true is forgotten.
Probed_ForgetsHasPosition(r) ==
    /\ result' = r.result
    /\ has_position' = has_position
    /\ last_position' = r.last_position
    /\ last_position_time' = r.last_position_time
    /\ smoothed_alt' = r.smoothed_alt
    /\ distance' = r.distance
    /\ alt_gain' = r.alt_gain
    /\ max_speed' = r.max_speed
    /\ moving_left' = IF r.result = "MOVING" THEN moving_left - 1 ELSE moving_left
    /\ faults_left' = IF r.result = "NO_FIX" THEN faults_left - 1 ELSE faults_left

\* The members probe_gps writes, and the run counters.
Probed(r) ==
    /\ result' = r.result
    /\ has_position' = r.has_position
    /\ last_position' = r.last_position
    /\ last_position_time' = r.last_position_time
    /\ smoothed_alt' = r.smoothed_alt
    /\ distance' = r.distance
    /\ alt_gain' = r.alt_gain
    /\ max_speed' = r.max_speed
    /\ moving_left' = IF r.result = "MOVING" THEN moving_left - 1 ELSE moving_left
    /\ faults_left' = IF r.result = "NO_FIX" THEN faults_left - 1 ELSE faults_left

\* Mutant of IdlePush: the pushed value is result != IDLE.
IdlePush_Inverted(q, n, is_idle) ==
    LET full == Len(q) = TRACKING_IDLE_BUFFER_SIZE
        n1 == IF full /\ Head(q) THEN n - 1 ELSE n
        q1 == IF full THEN Tail(q) ELSE q
    IN [idle_probes |-> Append(q1, ~is_idle),
        n_idle |-> IF is_idle THEN n1 + 1 ELSE n1]

\* Mutant of IdlePush: the eviction forgets --gps_.n_idle.
IdlePush_NoDecrement(q, n, is_idle) ==
    LET full == Len(q) = TRACKING_IDLE_BUFFER_SIZE
        q1 == IF full THEN Tail(q) ELSE q
    IN [idle_probes |-> Append(q1, is_idle),
        n_idle |-> IF is_idle THEN n + 1 ELSE n]

(***************************************************************************)
(* The idle window update of loop_tracking: evict the front when the queue *)
(* is full, then push.                                                     *)
(***************************************************************************)
IdlePush(q, n, is_idle) ==
    LET full == Len(q) = TRACKING_IDLE_BUFFER_SIZE
        n1 == IF full /\ Head(q) THEN n - 1 ELSE n
        q1 == IF full THEN Tail(q) ELSE q
    IN [idle_probes |-> Append(q1, is_idle),
        n_idle |-> IF is_idle THEN n1 + 1 ELSE n1]

\* Mutant of LocationMsg: >= instead of >.
LocationMsg_IncludesEqual(ub) ==
    LET fresh == has_position /\ last_position_time >= last_msg_time
        c == IF fresh THEN last_position.coordinates ELSE NoCoordinates
    IN LocationMsgT(c.lat, c.lng, c.alt, distance, alt_gain, max_speed, ub)

(***************************************************************************)
(* The message send_location_msg(now) builds: the last position if it is   *)
(* newer than the last acknowledged message, zeros otherwise.              *)
(***************************************************************************)
LocationMsg(ub) ==
    LET fresh == has_position /\ last_position_time > last_msg_time
        c == IF fresh THEN last_position.coordinates ELSE NoCoordinates
    IN LocationMsgT(c.lat, c.lng, c.alt, distance, alt_gain, max_speed, ub)

\* The bytes an undefined conversion may give in the current state.
UbBytes == IF max_speed = FLT_INF THEN UB_BYTES ELSE {0}

\* Mutant of SendLocationMsg: the acknowledged branch forgets max_speed.
SendLocationMsg_KeepsMaxSpeed(ack) ==
    IF ack
    THEN [success |-> TRUE, distance |-> 0, alt_gain |-> 0, max_speed |-> max_speed,
          last_msg_time |-> now]
    ELSE [success |-> FALSE, distance |-> distance, alt_gain |-> alt_gain,
          max_speed |-> max_speed, last_msg_time |-> last_msg_time]

\* Mutant of SendLocationMsg: the accumulator is reset whatever the response.
SendLocationMsg_AlwaysResets(ack) ==
    [success |-> ack, distance |-> 0, alt_gain |-> 0, max_speed |-> 0,
     last_msg_time |-> IF ack THEN now ELSE last_msg_time]

(***************************************************************************)
(* send_location_msg(now) when the radio answers `ack`.                    *)
(***************************************************************************)
SendLocationMsg(ack) ==
    IF ack
    THEN [success |-> TRUE, distance |-> 0, alt_gain |-> 0, max_speed |-> 0,
          last_msg_time |-> now]
    ELSE [success |-> FALSE, distance |-> distance, alt_gain |-> alt_gain,
          max_speed |-> max_speed, last_msg_time |-> last_msg_time]

\* The members send_location_msg writes, and the run counter.
Sent(m) ==
    /\ response' = IF m.success THEN "ACK" ELSE "NACK"
    /\ distance' = m.distance
    /\ alt_gain' = m.alt_gain
    /\ max_speed' = m.max_speed
    /\ last_msg_time' = m.last_msg_time
    /\ faults_left' = IF m.success THEN faults_left ELSE faults_left - 1

\* radio_.next_msg_time.has_value() && now >= radio_.next_msg_time
MsgDue == next_msg_time # nullopt /\ now >= next_msg_time

(***************************************************************************)
(* sleep(now): the duration in milliseconds.  The subtraction is unsigned: *)
(* a deadline in the past wraps to a duration beyond 2^31 ms.              *)
(***************************************************************************)
SLEEP_WRAPPED_MS == 2147483647

\* Mutant of SleepDuration: the message deadline is ignored.
SleepDuration_ProbeOnly ==
    IF next_probe_time < now THEN SLEEP_WRAPPED_MS
    ELSE Max(SLEEP_MIN_MS, (next_probe_time - now) * 1000)

\* Mutant of SleepDuration: the probe deadline is ignored when a message is
\* scheduled.
SleepDuration_MsgOnly ==
    LET next_event == IF next_msg_time # nullopt
                      THEN next_msg_time
                      ELSE next_probe_time
    IN IF next_event < now THEN SLEEP_WRAPPED_MS
       ELSE Max(SLEEP_MIN_MS, (next_event - now) * 1000)

SleepDuration ==
    LET next_event == IF next_msg_time # nullopt
                      THEN Min(next_probe_time, next_msg_time)
                      ELSE next_probe_time
    IN IF next_event < now THEN SLEEP_WRAPPED_MS
       ELSE Max(SLEEP_MIN_MS, (next_event - now) * 1000)

\* Mutant of ToTracking: the pending message deadline is overwritten.
ToTracking_NoMin ==
    [state |-> "TRACKING",
     powered_on_ |-> TRUE,
     next_probe_time |-> now,
     idle_probes |-> << >>,
     n_idle |-> 0,
     next_msg_time |-> now + TRACKING_RADIO_DELAY,
     attached |-> FALSE]

\* Mutant of ToTracking: the idle window is not cleared.
ToTracking_KeepsWindow ==
    [state |-> "TRACKING",
     powered_on_ |-> TRUE,
     next_probe_time |-> now,
     idle_probes |-> idle_probes,
     n_idle |-> n_idle,
     next_msg_time |-> IF next_msg_time # nullopt
                       THEN Min(next_msg_time, now + TRACKING_RADIO_DELAY)
                       ELSE now + TRACKING_RADIO_DELAY,
     attached |-> FALSE]

(***************************************************************************)
(* to_tracking(now) and to_power_save(now): the new values of the members  *)
(* they write.                                                             *)
(***************************************************************************)
\* Mutant of ToTracking: radio_.next_msg_time is not written.
ToTracking_KeepsMsgTime ==
    [state |-> "TRACKING",
     powered_on_ |-> TRUE,
     next_probe_time |-> now,
     idle_probes |-> << >>,
     n_idle |-> 0,
     next_msg_time |-> next_msg_time,
     attached |-> FALSE]

\* Mutant of ToTracking: the interrupt handler stays attached.
ToTracking_StaysAttached ==
    [state |-> "TRACKING",
     powered_on_ |-> TRUE,
     next_probe_time |-> now,
     idle_probes |-> << >>,
     n_idle |-> 0,
     next_msg_time |-> IF next_msg_time # nullopt
                       THEN Min(next_msg_time, now + TRACKING_RADIO_DELAY)
                       ELSE now + TRACKING_RADIO_DELAY,
     attached |-> attached]

ToTracking ==
    [state |-> "TRACKING",
     powered_on_ |-> TRUE,
     next_probe_time |-> now,
     idle_probes |-> << >>,
     n_idle |-> 0,
     next_msg_time |-> IF next_msg_time # nullopt
                       THEN Min(next_msg_time, now + TRACKING_RADIO_DELAY)
                       ELSE now + TRACKING_RADIO_DELAY,
     attached |-> FALSE]

\* Mutant of ToPowerSave: the GPS is not put to sleep.
ToPowerSave_KeepsGpsOn ==
    [state |-> "POWER_SAVE",
     powered_on_ |-> powered_on_,
     next_probe_time |-> IF has_position
                         THEN last_position_time + POWER_SAVE_GPS_PROBE_DELAY
                         ELSE now + GPS_RETRY_DELAY,
     detected_ |-> FALSE,
     attached |-> TRUE]

\* Mutant of ToPowerSave: state_ is not set.
ToPowerSave_KeepsState ==
    [state |-> state,
     powered_on_ |-> FALSE,
     next_probe_time |-> IF has_position
                         THEN last_position_time + POWER_SAVE_GPS_PROBE_DELAY
                         ELSE now + GPS_RETRY_DELAY,
     detected_ |-> FALSE,
     attached |-> TRUE]

\* Mutant of ToPowerSave: the latch is not reset.
ToPowerSave_NoReset ==
    [state |-> "POWER_SAVE",
     powered_on_ |-> FALSE,
     next_probe_time |-> IF has_position
                         THEN last_position_time + POWER_SAVE_GPS_PROBE_DELAY
                         ELSE now + GPS_RETRY_DELAY,
     detected_ |-> detected_,
     attached |-> TRUE]

ToPowerSave ==
    [state |-> "POWER_SAVE",
     powered_on_ |-> FALSE,
     next_probe_time |-> IF has_position
                         THEN last_position_time + POWER_SAVE_GPS_PROBE_DELAY
                         ELSE now + GPS_RETRY_DELAY,
     detected_ |-> FALSE,
     attached |-> TRUE]

\* Mutant of TrackingNextProbe: no short retry after NO_FIX.
TrackingNextProbe_NoRetry(r) == now + TRACKING_GPS_PROBE_DELAY

\* loop_tracking: the next probe deadline after a probe with result r
TrackingNextProbe(r) ==
    IF r = "NO_FIX" THEN now + GPS_RETRY_DELAY
                    ELSE now + TRACKING_GPS_PROBE_DELAY

(***************************************************************************)
(* loop_tracking, probe block.                                             *)
(***************************************************************************)
LoopTrackingProbe ==
    /\ pc = "probe"
    /\ state = "TRACKING"
    /\ pc' = "send"
    /\ IF now >= next_probe_time
       THEN \E position \in Samples :
               /\ Allowed(position)
               /\ LET r == ProbeGps(position)
                      w == IdlePush(idle_probes, n_idle, r.result = "IDLE")
                  IN /\ Probed(r)
                     /\ powered_on_' = TRUE
                     /\ IF r.result = "NO_FIX"
                        THEN /\ next_probe_time' = TrackingNextProbe(r.result)
                             /\ UNCHANGED <<idle_probes, n_idle, pushed>>
                        ELSE /\ next_probe_time' = TrackingNextProbe(r.result)
                             /\ IF r.result # "UNKNOWN"
                                THEN /\ idle_probes' = w.idle_probes
                                     /\ n_idle' = w.n_idle
                                     /\ pushed' = Append(pushed, r.result = "IDLE")
                                ELSE UNCHANGED <<idle_probes, n_idle, pushed>>
       ELSE UNCHANGED <<result, gps_vars, pushed, moving_left, faults_left>>
    /\ UNCHANGED <<horizon, clock_back, msg, state, now, movement, latched, response, sleep_ms, radio_vars,
                   detected_, attached, latch_age>>

\* Mutant of TrackingNextMsg: no short retry after a failed send.
TrackingNextMsg_NoRetry(success) == now + TRACKING_RADIO_DELAY

\* loop_tracking: the next message deadline after a send
TrackingNextMsg(success) ==
    IF success THEN now + TRACKING_RADIO_DELAY
               ELSE now + RADIO_RETRY_DELAY

(***************************************************************************)
(* loop_tracking, radio block.                                             *)
(***************************************************************************)
LoopTrackingSend ==
    /\ pc = "send"
    /\ state = "TRACKING"
    /\ pc' = "end"
    /\ IF MsgDue
       THEN \E ack \in BOOLEAN :
               /\ ack \/ faults_left > 0
               /\ \E ub \in UbBytes : msg' = LocationMsg(ub)
               /\ LET m == SendLocationMsg(ack)
                  IN /\ Sent(m)
                     /\ next_msg_time' = TrackingNextMsg(m.success)
       ELSE UNCHANGED <<response, distance, alt_gain, max_speed, radio_vars, faults_left,
                       msg>>
    /\ UNCHANGED <<horizon, clock_back, state, now, movement, latched, result, sleep_ms,
                   next_probe_time, has_position, last_position, last_position_time,
                   smoothed_alt, idle_probes, n_idle, powered_on_,
                   detected_, attached, pushed, latch_age, moving_left>>

\* Mutant of IdleForTooLong: <= instead of >=.
IdleForTooLong_Inverted == n_idle <= TRACKING_IDLE_PROBES

\* Mutant of IdleForTooLong: > instead of >=.
IdleForTooLong_Strict == n_idle > TRACKING_IDLE_PROBES

\* gps_.n_idle >= TRACKING_IDLE_PROBES
IdleForTooLong == n_idle >= TRACKING_IDLE_PROBES

(***************************************************************************)
(* loop_tracking, last block: to_power_save(now) or sleep(now).            *)
(***************************************************************************)
LoopTrackingEnd ==
    /\ pc = "end"
    /\ state = "TRACKING"
    /\ pc' = "loop"
    /\ IF IdleForTooLong
       THEN LET t == ToPowerSave
            IN /\ state' = t.state
               /\ powered_on_' = t.powered_on_
               /\ next_probe_time' = t.next_probe_time
               /\ detected_' = t.detected_
               /\ attached' = t.attached
               /\ sleep_ms' = 0
       ELSE /\ sleep_ms' = SleepDuration
            /\ UNCHANGED <<state, powered_on_, next_probe_time, detected_, attached>>
    /\ UNCHANGED <<horizon, clock_back, msg, now, movement, latched, result, response,
                   has_position, last_position, last_position_time, smoothed_alt,
                   distance, alt_gain, max_speed, idle_probes, n_idle, radio_vars,
                   pushed, latch_age, moving_left, faults_left>>

\* Mutant of MovementAfterProbe: == instead of !=.
MovementAfterProbe_Inverted(r) == IF r = "IDLE" THEN TRUE ELSE movement

\* Mutant of MovementAfterProbe: movement = (result != IDLE), losing the latch.
MovementAfterProbe_Overwrites(r) == r # "IDLE"

\* if (result != probe_result_t::IDLE) movement = true
MovementAfterProbe(r) == IF r # "IDLE" THEN TRUE ELSE movement

\* Mutant of PowerSaveNextProbe: the delay of the TRACKING state.
PowerSaveNextProbe_TrackingDelay(r) ==
    IF r = "NO_FIX" THEN now + GPS_RETRY_DELAY
                    ELSE now + TRACKING_GPS_PROBE_DELAY

\* loop_power_save: the next probe deadline after a probe with result r
PowerSaveNextProbe(r) ==
    IF r = "NO_FIX" THEN now + GPS_RETRY_DELAY
                    ELSE now + POWER_SAVE_GPS_PROBE_DELAY

(***************************************************************************)
(* loop_power_save, probe block.  The block is not guarded by the latch.   *)
(***************************************************************************)
LoopPowerSaveProbe ==
    /\ pc = "probe"
    /\ state = "POWER_SAVE"
    /\ pc' = "send"
    /\ IF now >= next_probe_time
       THEN \E position \in Samples :
               /\ Allowed(position)
               /\ LET r == ProbeGps(position)
                  IN /\ Probed(r)
                     /\ IF r.result = "NO_FIX"
                        THEN /\ next_probe_time' = PowerSaveNextProbe(r.result)
                             /\ powered_on_' = TRUE
                             /\ UNCHANGED <<next_msg_time, movement>>
                        ELSE /\ powered_on_' = FALSE
                             /\ next_probe_time' = PowerSaveNextProbe(r.result)
                             /\ next_msg_time' = now
                             /\ movement' = MovementAfterProbe(r.result)
       ELSE UNCHANGED <<result, gps_vars, next_msg_time, movement, moving_left,
                       faults_left>>
    /\ UNCHANGED <<horizon, clock_back, msg, state, now, latched, response, sleep_ms, last_msg_time,
                   idle_probes, n_idle, detected_, attached, pushed, latch_age>>

\* Mutant of PowerSaveNextMsg: an acknowledged message is followed by a
\* regular one, as in TRACKING.
PowerSaveNextMsg_Reschedules(success) ==
    IF success THEN now + TRACKING_RADIO_DELAY
               ELSE now + RADIO_RETRY_DELAY

\* Mutant of PowerSaveNextMsg: a failed message is not retried.
PowerSaveNextMsg_DropsRetry(success) == nullopt

\* Mutant of PowerSaveNextMsg: the retry is due at once.
PowerSaveNextMsg_RetriesNow(success) ==
    IF success THEN nullopt
               ELSE now

\* loop_power_save: the message deadline after a send
PowerSaveNextMsg(success) ==
    IF success THEN nullopt
               ELSE now + RADIO_RETRY_DELAY

(***************************************************************************)
(* loop_power_save, radio block.                                           *)
(***************************************************************************)
LoopPowerSaveSend ==
    /\ pc = "send"
    /\ state = "POWER_SAVE"
    /\ pc' = "end"
    /\ IF MsgDue
       THEN \E ack \in BOOLEAN :
               /\ ack \/ faults_left > 0
               /\ \E ub \in UbBytes : msg' = LocationMsg(ub)
               /\ LET m == SendLocationMsg(ack)
                  IN /\ Sent(m)
                     /\ next_msg_time' = PowerSaveNextMsg(m.success)
       ELSE UNCHANGED <<response, distance, alt_gain, max_speed, radio_vars, faults_left,
                       msg>>
    /\ UNCHANGED <<horizon, clock_back, state, now, movement, latched, result, sleep_ms,
                   next_probe_time, has_position, last_position, last_position_time,
                   smoothed_alt, idle_probes, n_idle, powered_on_,
                   detected_, attached, pushed, latch_age, moving_left>>

(***************************************************************************)
(* loop_power_save, last block: to_tracking(now) or sleep(now).            *)
(***************************************************************************)
LoopPowerSaveEnd ==
    /\ pc = "end"
    /\ state = "POWER_SAVE"
    /\ pc' = "loop"
    /\ IF movement
       THEN LET t == ToTracking
            IN /\ state' = t.state
               /\ powered_on_' = t.powered_on_
               /\ next_probe_time' = t.next_probe_time
               /\ idle_probes' = t.idle_probes
               /\ n_idle' = t.n_idle
               /\ next_msg_time' = t.next_msg_time
               /\ attached' = t.attached
               /\ pushed' = << >>
               /\ latch_age' = 0 - 1
               /\ sleep_ms' = 0
       ELSE /\ sleep_ms' = SleepDuration
            /\ UNCHANGED <<state, powered_on_, next_probe_time, idle_probes, n_idle,
                           next_msg_time, attached, pushed, latch_age>>
    /\ UNCHANGED <<horizon, clock_back, msg, now, movement, latched, result, response,
                   has_position, last_position, last_position_time, smoothed_alt,
                   distance, alt_gain, max_speed, last_msg_time, detected_,
                   moving_left, faults_left>>

Next ==
    \/ Loop
    \/ LoopTrackingProbe
    \/ LoopTrackingSend
    \/ LoopTrackingEnd
    \/ LoopPowerSaveProbe
    \/ LoopPowerSaveSend
    \/ LoopPowerSaveEnd
    \/ OnInterrupt

Spec == Init /\ [][Next]_vars

(***************************************************************************)
(* The same program with fewer faults, so that more orders of IDLE and     *)
(* MOVING probes fit in the bounds.                                        *)
(***************************************************************************)
InitIdle ==
    /\ Boot
    /\ moving_left = IdleMaxMoving
    /\ faults_left = IdleMaxFaults
    /\ horizon = IdleMaxTime

SpecIdle == InitIdle /\ [][Next]_vars

(***************************************************************************)
(* The program in the radio block of the TRACKING tick at                  *)
(* now = TRACKING_RADIO_DELAY, after an IDLE probe in the same tick, with  *)
(* the trip it has accumulated so far drawn from the values below: metres  *)
(* of altitude and of distance, fifths of a metre of altitude gain, mm/s   *)
(* of speed.                                                               *)
(***************************************************************************)
EncodeAlts == {104, 100}

EncodeDistances == {1000, 24, 0}

EncodeAltGains == {60, 5}

EncodeSpeeds == {10000, 8000}

InitEncode ==
    /\ state = "TRACKING"
    /\ pc = "send"
    /\ now = TRACKING_RADIO_DELAY
    /\ movement = FALSE
    /\ latched = FALSE
    /\ result = "IDLE"
    /\ response = "NONE"
    /\ sleep_ms = 0
    /\ next_probe_time = TRACKING_RADIO_DELAY + TRACKING_GPS_PROBE_DELAY
    /\ has_position = TRUE
    /\ \E a \in EncodeAlts :
          /\ last_position = [has_gnss_fix |-> TRUE, n_satellites |-> 4,
                              coordinates |-> [lat |-> 1000, lng |-> 0, alt |-> a]]
          /\ smoothed_alt = a
    /\ last_position_time = TRACKING_RADIO_DELAY
    /\ distance \in EncodeDistances
    /\ alt_gain \in EncodeAltGains
    /\ max_speed \in EncodeSpeeds
    /\ idle_probes = <<FALSE, TRUE>>
    /\ n_idle = 1
    /\ last_msg_time = 0
    /\ next_msg_time = TRACKING_RADIO_DELAY
    /\ detected_ = FALSE
    /\ attached = FALSE
    /\ powered_on_ = TRUE
    /\ pushed = <<FALSE, TRUE>>
    /\ latch_age = 0 - 1
    /\ msg = NoMsg
    /\ clock_back = FALSE
    /\ moving_left = EncodeMaxMoving
    /\ faults_left = EncodeMaxFaults
    /\ horizon = EncodeMaxTime

SpecEncode == InitEncode /\ [][Next]_vars

(***************************************************************************)
(* The program from boot with loop() called again and again, as the        *)
(* Arduino runtime does: a step of the tick that can be taken is taken.    *)
(***************************************************************************)
InitLive ==
    /\ Boot
    /\ moving_left = LiveMaxMoving
    /\ faults_left = LiveMaxFaults
    /\ horizon = LiveMaxTime

SpecLive == InitLive /\ [][Next]_vars /\ WF_vars(Next)

(***************************************************************************)
(* The program at the probe block of the TRACKING tick at now = 200, with  *)
(* one position held, taken 20 s or 180 s ago at one of the places below:  *)
(* the place of a sample, 300 m above it, 199 m and 200 m away from it     *)
(* (200 m in 180 s is IDLE_THRESHOLD), and 30 m away and 40 m below it.    *)
(***************************************************************************)
ProbePositions ==
    {[lat |-> 1000, lng |-> 0, alt |-> 100],
     [lat |-> 1000, lng |-> 0, alt |-> 400],
     [lat |-> 1199, lng |-> 0, alt |-> 100],
     [lat |-> 1200, lng |-> 0, alt |-> 100],
     [lat |-> 1030, lng |-> 0, alt |-> 60]}

ProbeTimes == {20, 180}

InitProbe ==
    /\ state = "TRACKING"
    /\ pc = "probe"
    /\ now = 200
    /\ movement = FALSE
    /\ latched = FALSE
    /\ result = "NONE"
    /\ response = "NONE"
    /\ sleep_ms = 0
    /\ next_probe_time = 200
    /\ has_position = TRUE
    /\ \E c \in ProbePositions :
          /\ last_position = [has_gnss_fix |-> TRUE, n_satellites |-> 4,
                              coordinates |-> c]
          /\ smoothed_alt = c.alt
    /\ last_position_time \in ProbeTimes
    /\ distance = 0
    /\ alt_gain = 0
    /\ max_speed = 0
    /\ idle_probes = << >>
    /\ n_idle = 0
    /\ last_msg_time = TRACKING_RADIO_DELAY
    /\ next_msg_time = 2 * TRACKING_RADIO_DELAY
    /\ detected_ = FALSE
    /\ attached = FALSE
    /\ powered_on_ = TRUE
    /\ pushed = << >>
    /\ latch_age = 0 - 1
    /\ msg = NoMsg
    /\ clock_back = FALSE
    /\ moving_left = ProbeMaxMoving
    /\ faults_left = ProbeMaxFaults
    /\ horizon = ProbeMaxTime

SpecProbe == InitProbe /\ [][Next]_vars

(***************************************************************************)
(* The program after a GPS outage that began right after boot: the first   *)
(* probe, at now = 0, gave a fix; the probes at 20, 25, ..., 170 gave      *)
(* none. The tick at 170 has slept until the retry at 175; no message has  *)
(* been sent yet.                                                          *)
(***************************************************************************)
OUTAGE_LAST_RETRY == 170

InitOutage ==
    /\ state = "TRACKING"
    /\ pc = "loop"
    /\ now = OUTAGE_LAST_RETRY
    /\ movement = FALSE
    /\ latched = FALSE
    /\ result = "NO_FIX"
    /\ response = "NONE"
    /\ sleep_ms = GPS_RETRY_DELAY * 1000
    /\ next_probe_time = OUTAGE_LAST_RETRY + GPS_RETRY_DELAY
    /\ has_position = TRUE
    /\ \E c \in Coordinates :
          /\ last_position = [has_gnss_fix |-> TRUE, n_satellites |-> 4,
                              coordinates |-> c]
          /\ smoothed_alt = c.alt
    /\ last_position_time = 0
    /\ distance = 0
    /\ alt_gain = 0
    /\ max_speed = 0
    /\ idle_probes = << >>
    /\ n_idle = 0
    /\ last_msg_time = 0
    /\ next_msg_time = TRACKING_RADIO_DELAY
    /\ detected_ = FALSE
    /\ attached = FALSE
    /\ powered_on_ = TRUE
    /\ pushed = << >>
    /\ latch_age = 0 - 1
    /\ msg = NoMsg
    /\ clock_back = FALSE
    /\ moving_left = OutageMaxMoving
    /\ faults_left = OutageMaxFaults
    /\ horizon = OutageMaxTime

SpecOutage == InitOutage /\ [][Next]_vars

(***************************************************************************)
(* The program from boot with a bike that stands still: every probe        *)
(* returns a usable fix at the place of the previous one and the motion    *)
(* interrupt never fires. loop() is called again and again.                *)
(***************************************************************************)
StillProbe == result' \in {"NONE", "UNKNOWN", "IDLE"}

StillTrackingProbe == LoopTrackingProbe /\ StillProbe

StillPowerSaveProbe == LoopPowerSaveProbe /\ StillProbe

NextStill ==
    \/ Loop
    \/ StillTrackingProbe
    \/ LoopTrackingSend
    \/ LoopTrackingEnd
    \/ StillPowerSaveProbe
    \/ LoopPowerSaveSend
    \/ LoopPowerSaveEnd

InitStill ==
    /\ Boot
    /\ moving_left = 0
    /\ faults_left = StillMaxFaults
    /\ horizon = StillMaxTime

SpecStill == InitStill /\ [][NextStill]_vars /\ WF_vars(NextStill)

(***************************************************************************)
(* Faults of the devices around the core.                                  *)
(*                                                                         *)
(* The clock: getY2kEpoch() may return less than it returned to the        *)
(* previous tick (the counter wrapped or was set back).  loop() reads it   *)
(* and dispatches as usual.                                                *)
(***************************************************************************)
ClockResets == {0, 10}

LoopClockReset ==
    /\ pc = "loop"
    /\ faults_left > 0
    /\ \E t \in ClockResets : t < now /\ now' = t
    /\ clock_back' = TRUE
    /\ latched' = (state = "POWER_SAVE" /\ detected_)
    /\ movement' = (state = "POWER_SAVE" /\ detected_)
    /\ result' = "NONE"
    /\ response' = "NONE"
    /\ sleep_ms' = 0
    /\ pc' = "probe"
    /\ latch_age' = IF latch_age >= 0 THEN latch_age + 1 ELSE latch_age
    /\ msg' = NoMsg
    /\ faults_left' = faults_left - 1
    /\ UNCHANGED <<horizon, state, gps_vars, radio_vars, detected_, attached, pushed,
                   moving_left>>

(***************************************************************************)
(* The GPS: get_position() of a powered-off receiver calls wake_up(),      *)
(* which calls setup(); when begin() fails setup() calls logger::error,    *)
(* which blinks the LEDs forever and never returns (pc = "error").         *)
(***************************************************************************)
GpsWakeUpFailsInProbe ==
    /\ pc = "probe"
    /\ now >= next_probe_time
    /\ ~powered_on_
    /\ faults_left > 0
    /\ pc' = "error"
    /\ faults_left' = faults_left - 1
    /\ UNCHANGED <<horizon, clock_back, msg, state, now, movement, latched, result,
                   response, sleep_ms, gps_vars, radio_vars, detected_, attached,
                   pushed, latch_age, moving_left>>

(***************************************************************************)
(* to_tracking() sets state_ and then calls wake_up(), with the same       *)
(* failure.                                                                *)
(***************************************************************************)
GpsWakeUpFailsInToTracking ==
    /\ pc = "end"
    /\ state = "POWER_SAVE"
    /\ movement
    /\ ~powered_on_
    /\ faults_left > 0
    /\ state' = "TRACKING"
    /\ pc' = "error"
    /\ faults_left' = faults_left - 1
    /\ UNCHANGED <<horizon, clock_back, msg, now, movement, latched, result,
                   response, sleep_ms, gps_vars, radio_vars, detected_, attached,
                   pushed, latch_age, moving_left>>

(***************************************************************************)
(* The radio: send() calls wake_up() for every message; when               *)
(* SigFox.begin() fails it calls logger::error.  The message is already    *)
(* built.                                                                  *)
(***************************************************************************)
RadioWakeUpFails ==
    /\ pc = "send"
    /\ MsgDue
    /\ faults_left > 0
    /\ \E ub \in UbBytes : msg' = LocationMsg(ub)
    /\ pc' = "error"
    /\ faults_left' = faults_left - 1
    /\ UNCHANGED <<horizon, clock_back, state, now, movement, latched, result,
                   response, sleep_ms, gps_vars, radio_vars, detected_, attached,
                   pushed, latch_age, moving_left>>

NextFaults ==
    \/ Loop
    \/ LoopTrackingProbe
    \/ LoopTrackingSend
    \/ LoopTrackingEnd
    \/ LoopPowerSaveProbe
    \/ LoopPowerSaveSend
    \/ LoopPowerSaveEnd
    \/ OnInterrupt
    \/ LoopClockReset
    \/ GpsWakeUpFailsInProbe
    \/ GpsWakeUpFailsInToTracking
    \/ RadioWakeUpFails

SpecFaults == Init /\ [][NextFaults]_vars

(***************************************************************************)
(* Steps of a tick, named for the properties below.                        *)
(***************************************************************************)
SendStep == pc = "send" /\ pc' = "end"

EndStep == pc = "end" /\ pc' = "loop"

ProbeStep == pc = "probe" /\ pc' = "send"

Classified(r) == r \in {"IDLE", "MOVING"}

\* C1: send_location_msg: with an acknowledgment distance, alt_gain and
\* max_speed become zero and last_msg_time becomes now; without one the four
\* are left unchanged.
C1_SendOutcome ==
    [][SendStep =>
        /\ (response' # "NONE") = MsgDue
        /\ response' = "ACK" =>
              /\ distance' = 0 /\ alt_gain' = 0 /\ max_speed' = 0
              /\ last_msg_time' = now
        /\ response' = "NACK" =>
              UNCHANGED <<distance, alt_gain, max_speed, last_msg_time>>]_vars

\* A failed send has left a non-zero accumulator in place.
C1_Witness ==
    /\ pc = "end"
    /\ response = "NACK"
    /\ distance > 0
    /\ max_speed > 0

\* C2: in every step other than an acknowledged send, each accumulator field
\* is at least its previous value.
C2_AccumulatorMonotone ==
    [][\/ SendStep /\ response' = "ACK"
       \/ /\ distance' >= distance
          /\ alt_gain' >= alt_gain
          /\ max_speed' >= max_speed]_vars

\* A non-zero accumulator has survived a failed send, the tick's end and the
\* start of the next tick.
C2_Witness ==
    /\ pc = "probe"
    /\ distance > 0
    /\ alt_gain > 0
    /\ last_msg_time = 0
    /\ now > TRACKING_RADIO_DELAY

\* C3 as stated: every transition from POWER_SAVE to TRACKING clears the idle
\* window, its count and the accumulator.
C3_ClearsAccumulator ==
    [][state = "POWER_SAVE" /\ state' = "TRACKING" =>
        /\ idle_probes' = << >> /\ n_idle' = 0
        /\ distance' = 0 /\ alt_gain' = 0 /\ max_speed' = 0]_vars

\* C3 amended: every transition from POWER_SAVE to TRACKING clears the idle
\* window and its count, and leaves the accumulator unchanged.
C3_ClearsWindowOnly ==
    [][state = "POWER_SAVE" /\ state' = "TRACKING" =>
        /\ idle_probes' = << >> /\ n_idle' = 0
        /\ UNCHANGED <<distance, alt_gain, max_speed>>]_vars

\* The tracker has just left POWER_SAVE with a non-zero accumulator.
C3_Witness ==
    /\ state = "TRACKING"
    /\ pc = "loop"
    /\ movement
    /\ idle_probes = << >>
    /\ distance > 0

\* C4: n_idle is the number of true entries of idle_probes, and idle_probes
\* is the most recent TRACKING_IDLE_BUFFER_SIZE (or fewer) values pushed since
\* the window was last cleared.
C4_IdleWindow ==
    /\ n_idle = CountTrue(idle_probes)
    /\ idle_probes = LastN(pushed, TRACKING_IDLE_BUFFER_SIZE)

\* A true entry has been evicted from a full window.
C4_Witness ==
    /\ Len(pushed) > TRACKING_IDLE_BUFFER_SIZE
    /\ pushed[1]
    /\ n_idle < CountTrue(pushed)

\* C5: in TRACKING the idle count is below TRACKING_IDLE_PROBES except in the
\* rest of a tick whose IDLE probe has just raised it to that value, and that
\* tick, and no other, ends in POWER_SAVE.
C5_TransitionAtThreshold ==
    [][/\ state' = "TRACKING" /\ n_idle' >= TRACKING_IDLE_PROBES =>
             /\ n_idle' = TRACKING_IDLE_PROBES
             /\ pc' \in {"send", "end"}
             /\ result' = "IDLE"
       /\ EndStep /\ state = "TRACKING" =>
             (state' = "POWER_SAVE") = (n_idle >= TRACKING_IDLE_PROBES)]_vars

\* POWER_SAVE was entered on the 12th classified probe, the 9th IDLE one,
\* with 3 MOVING probes among the earlier ones.
C5_Witness ==
    /\ state = "POWER_SAVE"
    /\ pc = "loop"
    /\ result = "IDLE"
    /\ Len(pushed) = TRACKING_IDLE_BUFFER_SIZE
    /\ CountTrue(pushed) = TRACKING_IDLE_PROBES
    /\ ~pushed[TRACKING_IDLE_BUFFER_SIZE - 1]

\* C6: a POWER_SAVE tick that read the latch clear stays in POWER_SAVE when
\* its probe is IDLE; a POWER_SAVE tick whose probe is MOVING ends in
\* TRACKING whatever the radio answered; the state changes nowhere else, so
\* the next tick dispatches on the new state.
C6_PowerSaveProbe ==
    [][/\ EndStep /\ state = "POWER_SAVE" /\ result = "MOVING" =>
             state' = "TRACKING"
       /\ EndStep /\ state = "POWER_SAVE" /\ result = "IDLE" /\ ~latched =>
             state' = "POWER_SAVE"
       /\ ~EndStep => state' = state]_vars

\* A POWER_SAVE tick with the latch clear, a MOVING probe and a failed send
\* has ended in TRACKING.
C6_Witness ==
    /\ state = "TRACKING"
    /\ pc = "loop"
    /\ movement
    /\ ~latched
    /\ result = "MOVING"
    /\ response = "NACK"

\* C7 as stated: a POWER_SAVE tick that read the latch set performs no GPS
\* probe.
C7_NoProbeWhenLatched ==
    state = "POWER_SAVE" /\ latched /\ pc # "loop" => result = "NONE"

\* C8: while an interrupt that set the latch in POWER_SAVE has not yet led to
\* TRACKING, the latch is still set, at most one tick has started since, and
\* that tick has read the latch and recorded the movement.
C8_LatchObserved ==
    latch_age >= 0 =>
        /\ state = "POWER_SAVE"
        /\ detected_
        /\ latch_age <= 1
        /\ latch_age = 1 => movement /\ latched /\ pc # "loop"

\* The latch was set during a tick, after the tick had read it clear.
C8_Witness ==
    /\ state = "POWER_SAVE"
    /\ pc = "end"
    /\ detected_
    /\ ~latched
    /\ ~movement

\* C9 as stated: the classifier branch of probe_gps runs only with now
\* strictly greater than last_position_time.
C9_StrictlyIncreasing ==
    [][pc = "probe" /\ Classified(result') => now > last_position_time]_vars

\* C10 as stated: the first usable fix seeds the smoothed altitude with its
\* raw altitude, and every later usable fix replaces it by
\* old * (1 - 1/5) + raw * 1/5.
C10_SmoothedAltitude ==
    [][/\ pc = "probe" /\ result' = "UNKNOWN" =>
             smoothed_alt' = last_position'.coordinates.alt
       /\ pc = "probe" /\ Classified(result') =>
             GPS_ALT_SMOOTHER_DIV * smoothed_alt' =
                (GPS_ALT_SMOOTHER_DIV - 1) * smoothed_alt
                + last_position'.coordinates.alt]_vars

\* C11 as stated: a tick that read a clock value lower than the previous
\* one resets the tracker: when it ends the accumulator holds nothing but what
\* its own probe added, the idle window holds no older probe, and the probe
\* and transmission deadlines lie within their delays of the new clock value.
C11_ClockResetReseeds ==
    [][EndStep /\ clock_back =>
        /\ result # "MOVING" => distance' = 0 /\ alt_gain' = 0 /\ max_speed' = 0
        /\ Len(idle_probes') <= 1
        /\ next_probe_time' <= now + POWER_SAVE_GPS_PROBE_DELAY
        /\ next_msg_time' # nullopt =>
              next_msg_time' <= now + TRACKING_RADIO_DELAY]_vars

\* C12 as stated: after setup() no tick fails to return.
C12_TickReturns == pc # "error"

\* C13: the state is TRACKING or POWER_SAVE and starts as TRACKING; it
\* changes only in the last block of a tick; the last block of a TRACKING tick
\* either enters POWER_SAVE or sleeps without any of the writes of
\* to_tracking, and the last block of a POWER_SAVE tick either enters TRACKING
\* or sleeps without any of the writes of to_power_save.
C13_TwoStates ==
    /\ state = "TRACKING"
    /\ [][/\ state' \in {"TRACKING", "POWER_SAVE"}
          /\ ~EndStep => state' = state
          /\ EndStep /\ state = "TRACKING" =>
                \/ state' = "POWER_SAVE" /\ sleep_ms' = 0
                \/ /\ state' = "TRACKING" /\ sleep_ms' > 0
                   /\ UNCHANGED <<next_probe_time, idle_probes, n_idle,
                                  next_msg_time, attached, powered_on_>>
          /\ EndStep /\ state = "POWER_SAVE" =>
                \/ state' = "TRACKING" /\ sleep_ms' = 0
                \/ /\ state' = "POWER_SAVE" /\ sleep_ms' > 0
                   /\ UNCHANGED <<next_probe_time, detected_, attached,
                                  powered_on_>>]_vars

\* The tracker went to POWER_SAVE and came back on the motion latch.
C13_Witness ==
    /\ state = "TRACKING"
    /\ pc = "loop"
    /\ sleep_ms = 0
    /\ latched
    /\ result = "NONE"

\* C14: right after a transition into TRACKING the GPS is powered on, the
\* probe is due now, the idle window is empty, the interrupt is detached and
\* a message is scheduled at the earlier of the pending deadline, if any, and
\* now + TRACKING_RADIO_DELAY.
C14_EnterTracking ==
    [][state = "POWER_SAVE" /\ state' = "TRACKING" =>
        /\ powered_on_'
        /\ next_probe_time' = now
        /\ idle_probes' = << >> /\ n_idle' = 0
        /\ ~attached'
        /\ next_msg_time' # nullopt
        /\ next_msg_time' <= now + TRACKING_RADIO_DELAY
        /\ next_msg_time # nullopt => next_msg_time' <= next_msg_time
        /\ next_msg_time' \in {next_msg_time, now + TRACKING_RADIO_DELAY}]_vars

\* TRACKING was entered with a retry pending earlier than
\* now + TRACKING_RADIO_DELAY, and the retry deadline was kept.
C14_Witness ==
    /\ state = "TRACKING"
    /\ pc = "loop"
    /\ sleep_ms = 0
    /\ response = "NACK"
    /\ next_probe_time = now
    /\ next_msg_time = now + RADIO_RETRY_DELAY

\* C15: right after a transition into POWER_SAVE the GPS is powered off, the
\* probe is due POWER_SAVE_GPS_PROBE_DELAY after the last position (or
\* GPS_RETRY_DELAY from now without one), the latch is clear and the interrupt
\* is attached.
C15_EnterPowerSave ==
    [][state = "TRACKING" /\ state' = "POWER_SAVE" =>
        /\ ~powered_on_'
        /\ has_position =>
              next_probe_time' = last_position_time + POWER_SAVE_GPS_PROBE_DELAY
        /\ ~has_position => next_probe_time' = now + GPS_RETRY_DELAY
        /\ ~detected_'
        /\ attached']_vars

\* POWER_SAVE was entered with the latch still set from an earlier stay, and
\* the latch was reset.
C15_Witness ==
    /\ state = "POWER_SAVE"
    /\ pc = "loop"
    /\ sleep_ms = 0
    /\ ~detected_
    /\ attached
    /\ ~powered_on_
    /\ faults_left < MaxFaults
    /\ now >= 2 * TRACKING_RADIO_DELAY

\* C16 as stated: a POWER_SAVE tick that stays in POWER_SAVE sleeps until
\* next_probe_time, whatever the message deadline.
C16_SleepsUntilProbe ==
    [][EndStep /\ state = "POWER_SAVE" /\ state' = "POWER_SAVE" =>
        sleep_ms' = Max(SLEEP_MIN_MS, (next_probe_time - now) * 1000)]_vars

\* C16 amended: a POWER_SAVE tick that stays in POWER_SAVE sleeps until the
\* earlier of next_probe_time and the message deadline, if one is pending.
C16_SleepsUntilEarliest ==
    [][EndStep /\ state = "POWER_SAVE" /\ state' = "POWER_SAVE" =>
        /\ next_msg_time # nullopt /\ next_msg_time < next_probe_time =>
              sleep_ms' = Max(SLEEP_MIN_MS, (next_msg_time - now) * 1000)
        /\ next_msg_time = nullopt \/ next_msg_time >= next_probe_time =>
              sleep_ms' = Max(SLEEP_MIN_MS, (next_probe_time - now) * 1000)
        /\ sleep_ms' <= POWER_SAVE_GPS_PROBE_DELAY * 1000]_vars

\* A POWER_SAVE tick slept until a retry of the message, well before the
\* next probe.
C16_Witness ==
    /\ state = "POWER_SAVE"
    /\ pc = "loop"
    /\ sleep_ms = (next_msg_time - now) * 1000
    /\ next_msg_time # nullopt
    /\ next_msg_time + RADIO_RETRY_DELAY < next_probe_time

\* C17: a TRACKING tick that stays in TRACKING has a message scheduled and
\* sleeps max(500 ms, (min(next_probe_time, next_msg_time) - now) s).
C17_TrackingSleep ==
    [][EndStep /\ state = "TRACKING" /\ state' = "TRACKING" =>
        /\ next_msg_time # nullopt
        /\ sleep_ms' =
              Max(SLEEP_MIN_MS, (Min(next_probe_time, next_msg_time) - now) * 1000)
        /\ sleep_ms' >= SLEEP_MIN_MS]_vars

\* A TRACKING tick slept until the message deadline, earlier than the probe
\* deadline.
C17_Witness ==
    /\ state = "TRACKING"
    /\ pc = "loop"
    /\ next_msg_time < next_probe_time
    /\ sleep_ms = (next_msg_time - now) * 1000
    /\ sleep_ms > 0

\* C18: a usable fix is UNKNOWN exactly when no position was held before, it
\* leaves a position held, and a held position is never dropped; so UNKNOWN
\* is the outcome of the first usable fix and of no other.
C18_UnknownOnce ==
    [][/\ pc = "probe" /\ result' = "UNKNOWN" => ~has_position
       /\ pc = "probe" /\ Classified(result') => has_position
       /\ pc = "probe" /\ result' \in {"UNKNOWN", "IDLE", "MOVING"} => has_position'
       /\ has_position => has_position']_vars

\* A usable fix after the first one has been classified.
C18_Witness ==
    /\ pc = "send"
    /\ Classified(result)
    /\ has_position
    /\ last_position_time > 0

\* C19 as stated: the message carries (0,0) exactly when no position is held
\* or the last position is earlier than the last acknowledged message, and
\* the last position otherwise.
C19_SentinelWhenEarlier ==
    [][SendStep /\ response' # "NONE" =>
        LET sentinel == ~has_position \/ last_position_time < last_msg_time
        IN IF sentinel
           THEN msg'.lat = 0 /\ msg'.lng = 0
           ELSE /\ msg'.lat = last_position.coordinates.lat
                /\ msg'.lng = last_position.coordinates.lng]_vars

\* C19 amended: the message carries (0,0) exactly when no position is held
\* or the last position is not later than the last acknowledged message.
C19_SentinelWhenNotLater ==
    [][SendStep /\ response' # "NONE" =>
        LET sentinel == ~has_position \/ last_position_time <= last_msg_time
        IN IF sentinel
           THEN msg'.lat = 0 /\ msg'.lng = 0
           ELSE /\ msg'.lat = last_position.coordinates.lat
                /\ msg'.lng = last_position.coordinates.lng]_vars

\* A message that was not acknowledged was sent with a position taken in the
\* second of the last acknowledged message, and it carries (0,0).
C19_Witness ==
    /\ pc = "end"
    /\ response = "NACK"
    /\ has_position
    /\ last_position_time = last_msg_time
    /\ last_position_time > 0
    /\ msg.lat = 0
    /\ msg.lng = 0

\* q is round(value / divisor): the nearest integer, halves away from zero.
RoundsTo(value, divisor, q) ==
    /\ 2 * (q * divisor - value) <= divisor
    /\ 2 * (value - q * divisor) < divisor

\* byte is round(value / divisor) stored in an 8-bit field.
Scaled(value, divisor, byte) ==
    \E q \in 0..(value \div divisor + 1) :
        RoundsTo(value, divisor, q) /\ byte = q % 256

Wrapped(value, divisor, byte) ==
    \E q \in 0..(value \div divisor + 1) :
        /\ RoundsTo(value, divisor, q)
        /\ q < 256 => byte = q
        /\ q >= 256 => byte = q - 256 * (q \div 256)

C23_TrackingSend ==
    /\ TRACKING_RADIO_DELAY = 180 /\ RADIO_RETRY_DELAY = 60
    /\ RADIO_RETRY_DELAY < TRACKING_RADIO_DELAY
    /\ [][/\ SendStep /\ state = "TRACKING" =>
               IF next_msg_time # nullopt /\ now >= next_msg_time
               THEN /\ response' \in {"ACK", "NACK"}
                    /\ response' = "ACK" =>
                          next_msg_time' = now + TRACKING_RADIO_DELAY
                    /\ response' = "NACK" =>
                          next_msg_time' = now + RADIO_RETRY_DELAY
               ELSE response' = "NONE" /\ next_msg_time' = next_msg_time
          /\ ~SendStep /\ pc # "loop" => response' = response]_vars

C23_Witness ==
    /\ state = "TRACKING"
    /\ pc = "end"
    /\ response = "NACK"
    /\ next_msg_time = now + RADIO_RETRY_DELAY
    /\ distance > 0

\* C24: in POWER_SAVE a due probe without a fix changes next_probe_time to
\* now + 5 and nothing else of the schedule; a due probe with any other
\* outcome powers the GPS off, sets next_probe_time to now + 3600 and
\* next_msg_time to now, and the radio block of the same tick sends.
C24_PowerSaveProbe ==
    /\ POWER_SAVE_GPS_PROBE_DELAY = 3600
    /\ [][/\ ProbeStep /\ state = "POWER_SAVE" /\ now >= next_probe_time =>
               /\ result' # "NONE"
               /\ result' = "NO_FIX" =>
                     /\ next_probe_time' = now + GPS_RETRY_DELAY
                     /\ UNCHANGED <<next_msg_time, last_msg_time, movement,
                                    has_position, last_position,
                                    last_position_time, smoothed_alt, distance,
                                    alt_gain, max_speed, idle_probes, n_idle>>
                     /\ powered_on_'
               /\ result' # "NO_FIX" =>
                     /\ ~powered_on_'
                     /\ next_probe_time' = now + POWER_SAVE_GPS_PROBE_DELAY
                     /\ next_msg_time' = now
          /\ SendStep /\ state = "POWER_SAVE"
                /\ result \notin {"NONE", "NO_FIX"} =>
               /\ next_msg_time = now
               /\ response' \in {"ACK", "NACK"}]_vars

C24_Witness ==
    /\ state = "POWER_SAVE"
    /\ pc = "end"
    /\ result = "IDLE"
    /\ response = "ACK"
    /\ ~powered_on_
    /\ next_probe_time = now + POWER_SAVE_GPS_PROBE_DELAY
    /\ last_msg_time = now

\* C25: in POWER_SAVE an acknowledged send leaves no message scheduled and a
\* failed one leaves next_msg_time = now + 60; while no message is scheduled
\* only a probe with a usable fix or the transition to TRACKING schedules one.
C25_PowerSaveSend ==
    [][/\ SendStep /\ state = "POWER_SAVE" =>
            /\ response' = "ACK" => next_msg_time' = nullopt
            /\ response' = "NACK" => next_msg_time' = now + RADIO_RETRY_DELAY
            /\ response' = "NONE" => next_msg_time' = next_msg_time
       /\ state = "POWER_SAVE" /\ next_msg_time = nullopt
             /\ next_msg_time' # nullopt =>
            \/ ProbeStep /\ result' \in {"IDLE", "MOVING", "UNKNOWN"}
            \/ EndStep /\ state' = "TRACKING"]_vars

C25_Witness ==
    /\ state = "POWER_SAVE"
    /\ pc = "end"
    /\ response = "ACK"
    /\ next_msg_time = nullopt
    /\ last_msg_time = now

\* C27: a probe that gives IDLE, UNKNOWN or NO_FIX, and a tick without a
\* probe, leave distance, alt_gain and max_speed as they were: the probe
\* block changes one of them only with the outcome MOVING.
C27_OnlyMovingAccumulates ==
    [][ProbeStep =>
        /\ result' \in {"IDLE", "UNKNOWN", "NO_FIX", "NONE"} =>
              UNCHANGED <<distance, alt_gain, max_speed>>
        /\ <<distance, alt_gain, max_speed>>' # <<distance, alt_gain, max_speed>>
              => result' = "MOVING"]_vars

C27_Witness ==
    /\ pc = "send"
    /\ result = "IDLE"
    /\ distance > 0
    /\ last_position_time = now

\* C29: in TRACKING a probe appends TRUE to the idle window for IDLE and
\* FALSE for MOVING, with n_idle the number of TRUE in the window; NO_FIX,
\* UNKNOWN and a tick without a probe leave the window and n_idle alone.
C29_WindowPush ==
    [][ProbeStep /\ state = "TRACKING" =>
        /\ Classified(result') =>
              /\ Len(idle_probes') = Min(Len(idle_probes) + 1,
                                         TRACKING_IDLE_BUFFER_SIZE)
              /\ idle_probes'[Len(idle_probes')] = (result' = "IDLE")
              /\ \A i \in 1..(Len(idle_probes') - 1) :
                    idle_probes'[i] =
                       idle_probes[i + Len(idle_probes) + 1 - Len(idle_probes')]
              /\ n_idle' = CountTrue(idle_probes')
        /\ ~Classified(result') => UNCHANGED <<idle_probes, n_idle>>]_vars

C29_Witness ==
    /\ state = "TRACKING"
    /\ pc = "send"
    /\ result = "NO_FIX"
    /\ Len(idle_probes) >= 2
    /\ idle_probes[Len(idle_probes)]
    /\ ~idle_probes[1]

\* C30: in POWER_SAVE a position is held, so to_power_save takes the branch
\* last_position_time + 3600 and no probe of POWER_SAVE gives UNKNOWN.
C30_PowerSaveHasPosition ==
    /\ [](state = "POWER_SAVE" => has_position /\ result # "UNKNOWN")
    /\ [][EndStep /\ state = "TRACKING" /\ state' = "POWER_SAVE" =>
            /\ has_position
            /\ next_probe_time' =
                  last_position_time + POWER_SAVE_GPS_PROBE_DELAY]_vars

C30_Witness ==
    /\ state = "POWER_SAVE"
    /\ pc = "send"
    /\ result = "MOVING"
    /\ has_position
    /\ last_position_time = now


\* The squared horizontal distance between two coordinates.
HorizSquare(a, b) == (a.lat - b.lat) * (a.lat - b.lat)
                        + (a.lng - b.lng) * (a.lng - b.lng)

\* A probe step that classifies a fix against a position taken earlier.
ClassifyStep ==
    /\ ProbeStep
    /\ has_position
    /\ result' \notin {"NONE", "NO_FIX"}
    /\ now > last_position_time

\* C26: a usable fix with a previous position taken `elapsed` > 0 seconds
\* ago is IDLE exactly when horizontal distance / elapsed < 4 km/h, that is
\* 9 * distance < 10 * elapsed, and MOVING otherwise, at equality too. A
\* fix that differs from the previous one in altitude only, or not at all,
\* is IDLE.
C26_Classifier ==
    [][ClassifyStep =>
        LET h2 == HorizSquare(last_position'.coordinates,
                              last_position.coordinates)
            elapsed == now - last_position_time
        IN /\ Classified(result')
           /\ result' = "IDLE" <=> 81 * h2 < 100 * elapsed * elapsed
           /\ 81 * h2 = 100 * elapsed * elapsed => result' = "MOVING"
           /\ h2 = 0 => result' = "IDLE"
           /\ last_position'.coordinates = last_position.coordinates =>
                 result' = "IDLE"]_vars

\* 200 m in 180 s is the threshold itself: the probe is MOVING, with a max
\* speed of 1111 mm/s.
C26_Witness ==
    /\ pc = "send"
    /\ now = 200
    /\ result = "MOVING"
    /\ distance = 200
    /\ max_speed = 1111

\* The accumulation of a MOVING probe, with the speed taken from the
\* horizontal or from the full displacement: distance grows by the full
\* displacement (rounded down to a metre), alt_gain by
\* max(0, new_smoothed - old_smoothed) in fifths of a metre, and max_speed
\* becomes the larger of itself and displacement / elapsed (in mm/s; infinite
\* for a displacement in 0 s, not a number and ignored for none in 0 s).
Accumulated(horizontal_speed) ==
    LET a == last_position.coordinates
        b == last_position'.coordinates
        h2 == HorizSquare(a, b)
        full2 == h2 + (a.alt - b.alt) * (a.alt - b.alt)
        grew == distance' - distance
        elapsed == now - last_position_time
        new_smoothed5 == (GPS_ALT_SMOOTHER_DIV - 1) * smoothed_alt + b.alt
        old_smoothed5 == GPS_ALT_SMOOTHER_DIV * smoothed_alt
        moved2 == IF horizontal_speed THEN h2 ELSE full2
    IN /\ grew >= 0
       /\ grew * grew <= full2
       /\ full2 < (grew + 1) * (grew + 1)
       /\ alt_gain' - alt_gain = Max(0, new_smoothed5 - old_smoothed5)
       /\ \E d \in 0..grew :
             /\ d * d <= moved2
             /\ moved2 < (d + 1) * (d + 1)
             /\ max_speed' =
                   IF elapsed = 0
                   THEN IF d = 0 THEN max_speed ELSE FLT_INF
                   ELSE Max(max_speed, (1000 * d) \div elapsed)

MovingStep == ProbeStep /\ result' = "MOVING" /\ now >= last_position_time

\* C28 as stated: on MOVING, distance grows by the full displacement,
\* alt_gain by max(0, new_smoothed - old_smoothed) and max_speed becomes
\* max(max_speed, horizontal distance / elapsed), the speed of the
\* classification.
C28_HorizontalSpeed == [][MovingStep => Accumulated(TRUE)]_vars

\* C28: on MOVING, distance grows by the full displacement, alt_gain by
\* max(0, new_smoothed - old_smoothed) and max_speed becomes
\* max(max_speed, full displacement / elapsed): the speed recorded counts
\* the vertical displacement, which the classification ignores.
C28_FullSpeed == [][MovingStep => Accumulated(FALSE)]_vars

\* 30 m away and 40 m up in 20 s: 50 m at 2.5 m/s, 8 m of altitude gain.
C28_Witness ==
    /\ pc = "send"
    /\ now = 200
    /\ result = "MOVING"
    /\ distance = 50
    /\ max_speed = 2500
    /\ alt_gain = 8 * GPS_ALT_SMOOTHER_DIV


\* C31: a tick of loop_tracking calls to_power_save only if its own probe was
\* IDLE; the position is then dated now and the first probe of POWER_SAVE is
\* due at now + 3600. A tick without a probe, or with a probe that gave
\* NO_FIX, UNKNOWN or MOVING, stays in TRACKING.
C31_TransitionAfterIdle ==
    [][EndStep /\ state = "TRACKING" =>
        /\ state' = "POWER_SAVE" =>
              /\ result = "IDLE"
              /\ last_position_time = now
              /\ next_probe_time' = now + POWER_SAVE_GPS_PROBE_DELAY
        /\ result \in {"NONE", "NO_FIX", "UNKNOWN", "MOVING"} =>
              state' = "TRACKING"]_vars

C31_Witness ==
    /\ state = "POWER_SAVE"
    /\ pc = "loop"
    /\ sleep_ms = 0
    /\ result = "IDLE"
    /\ now > TRACKING_RADIO_DELAY
    /\ next_probe_time = now + POWER_SAVE_GPS_PROBE_DELAY

\* The step of a tick that ends in sleep(now): no transition was taken.
SleepStep == EndStep /\ state' = state

\* C32: when sleep(now) is called the earliest deadline is later than now:
\* next_event - now does not wrap and the sleep lasts (next_event - now)
\* seconds, at least 1000 ms, so the floor of 500 ms is never what is slept.
C32_SleepsAtLeastASecond ==
    [][SleepStep =>
        LET next_event == IF next_msg_time # nullopt
                          THEN Min(next_probe_time, next_msg_time)
                          ELSE next_probe_time
        IN /\ next_event > now
           /\ sleep_ms' = (next_event - now) * 1000
           /\ sleep_ms' >= 1000
           /\ sleep_ms' # SLEEP_WRAPPED_MS]_vars

C32_Witness ==
    /\ state = "POWER_SAVE"
    /\ pc = "loop"
    /\ response = "NACK"
    /\ next_msg_time = now + RADIO_RETRY_DELAY
    /\ sleep_ms = RADIO_RETRY_DELAY * 1000

\* C33: in TRACKING a message is always scheduled, and a tick that ends in
\* TRACKING leaves next_probe_time <= now + 20 and next_msg_time <= now + 180.
C33_TrackingDeadlines ==
    /\ [](state = "TRACKING" => next_msg_time # nullopt)
    /\ [](state = "TRACKING" /\ pc = "loop" =>
            /\ next_probe_time <= now + TRACKING_GPS_PROBE_DELAY
            /\ next_msg_time <= now + TRACKING_RADIO_DELAY)

C33_Witness ==
    /\ state = "TRACKING"
    /\ pc = "loop"
    /\ latched
    /\ sleep_ms = 0
    /\ last_msg_time = now
    /\ next_msg_time = now + TRACKING_RADIO_DELAY
    /\ next_probe_time = now


\* The run ends in a probe block: the bounds leave no sample to return.
ProbeBlocked ==
    /\ pc = "probe"
    /\ now >= next_probe_time
    /\ \A position \in Samples : ~Allowed(position)

\* C34: a scheduled message is unscheduled only by an acknowledged send, and
\* no probe, sleep or transition moves its deadline later; with ticks that
\* keep running up to the retry deadline, a failed send is followed by a
\* tick in which a send is due.
C34_RetryStaysScheduled ==
    /\ [][next_msg_time # nullopt /\ next_msg_time' = nullopt =>
            SendStep /\ response' = "ACK"]_vars
    /\ [][next_msg_time # nullopt /\ ~SendStep =>
            next_msg_time' # nullopt /\ next_msg_time' <= next_msg_time]_vars
    /\ [][SendStep /\ response' = "NACK" =>
            next_msg_time' = now + RADIO_RETRY_DELAY]_vars
    /\ (pc = "end" /\ response = "NACK" /\ now + RADIO_RETRY_DELAY <= horizon)
          ~> (pc = "send" /\ MsgDue) \/ ProbeBlocked

C34_Witness ==
    /\ state = "POWER_SAVE"
    /\ pc = "end"
    /\ now = TRACKING_RADIO_DELAY + RADIO_RETRY_DELAY
    /\ response = "ACK"
    /\ next_msg_time = nullopt


\* C35: a fix that no acknowledged message has carried is not withheld: as
\* long as no message has been acknowledged (last_msg_time is still 0), a
\* message sent with a position held carries its coordinates, not (0, 0).
C35_FixNotWithheld ==
    [][SendStep /\ response' # "NONE" /\ has_position /\ last_msg_time = 0 =>
        /\ msg'.lat = last_position.coordinates.lat
        /\ msg'.lng = last_position.coordinates.lng]_vars


\* C36: the interrupt handler is attached exactly in POWER_SAVE; the latch
\* is set by the handler only, and cleared only by to_power_save, which
\* runs reset() while the handler is still detached and attaches it after.
C36_ResetWhileDetached ==
    /\ [](attached <=> state = "POWER_SAVE")
    /\ [][~detected_ /\ detected_' => attached /\ pc' = pc]_vars
    /\ [][detected_ /\ ~detected_' =>
            /\ ~attached
            /\ EndStep /\ state = "TRACKING" /\ state' = "POWER_SAVE"]_vars
    /\ [][EndStep /\ state = "TRACKING" /\ state' = "POWER_SAVE" =>
            ~attached /\ attached' /\ ~detected_']_vars

\* The second entry into POWER_SAVE, after a motion interrupt.
C36_Witness ==
    /\ state = "POWER_SAVE"
    /\ pc = "loop"
    /\ sleep_ms = 0
    /\ attached
    /\ ~detected_
    /\ now >= 2 * TRACKING_RADIO_DELAY - TRACKING_GPS_PROBE_DELAY
    /\ moving_left = MaxMoving
    /\ faults_left = MaxFaults - 1


\* C37: a tick that ends in TRACKING leaves the GPS powered on. The GPS is
\* powered off on entry into POWER_SAVE; there, a probe without a fix
\* leaves it on, a probe with a fix powers it off, and nothing else changes
\* it: at the end of a POWER_SAVE tick it is on only if the last probe since
\* the entry gave NO_FIX.
C37_GpsPower ==
    /\ [](state = "TRACKING" /\ pc = "loop" => powered_on_)
    /\ [][EndStep /\ state = "TRACKING" /\ state' = "POWER_SAVE" =>
            ~powered_on_']_vars
    /\ [][ProbeStep /\ state = "POWER_SAVE" /\ result' # "NONE" =>
            (powered_on_' <=> result' = "NO_FIX")]_vars
    /\ [][state = "POWER_SAVE" /\ state' = "POWER_SAVE"
             /\ powered_on_' # powered_on_ =>
            ProbeStep /\ result' # "NONE"]_vars

C37_Witness ==
    /\ state = "POWER_SAVE"
    /\ pc = "loop"
    /\ powered_on_
    /\ result = "NO_FIX"
    /\ sleep_ms = GPS_RETRY_DELAY * 1000


\* C38: a tick of loop_tracking starts with n_idle < 9; n_idle never exceeds
\* 9 and the idle window never holds more than 12 entries; n_idle counts the
\* TRUE entries of the window, so no eviction takes it below zero.
C38_WindowBounds ==
    /\ state = "TRACKING" /\ pc \in {"loop", "probe"} =>
          n_idle < TRACKING_IDLE_PROBES
    /\ n_idle <= TRACKING_IDLE_PROBES
    /\ Len(idle_probes) <= TRACKING_IDLE_BUFFER_SIZE
    /\ n_idle >= 0
    /\ n_idle = CountTrue(idle_probes)

\* The 13th push evicted an idle entry from a full window.
C38_Witness ==
    /\ state = "TRACKING"
    /\ pc = "send"
    /\ Len(idle_probes) = TRACKING_IDLE_BUFFER_SIZE
    /\ Len(pushed) > TRACKING_IDLE_BUFFER_SIZE
    /\ pushed[1]
    /\ n_idle = TRACKING_IDLE_PROBES - 1


\* has_gnss_fix && n_satellites > 0
Usable(position) == position.has_gnss_fix /\ position.n_satellites > 0

\* C39: probe_gps gives NO_FIX exactly for a sample without a fix or without
\* satellites. A probe step that gives NO_FIX changes next_probe_time, to
\* now + 5, and nothing else of the tracker: the position, its time, the
\* smoothed altitude, the accumulator, the idle window and the message
\* schedule stay; any other outcome stores a usable sample dated now.
C39_NoFixFrame ==
    /\ [](\A position \in Samples :
            ProbeGps(position).result = "NO_FIX" <=> ~Usable(position))
    /\ [][ProbeStep =>
            /\ result' = "NO_FIX" =>
                  /\ next_probe_time' = now + GPS_RETRY_DELAY
                  /\ UNCHANGED <<has_position, last_position,
                                 last_position_time, smoothed_alt, distance,
                                 alt_gain, max_speed, idle_probes, n_idle,
                                 last_msg_time, next_msg_time, state,
                                 movement>>
            /\ result' \in {"IDLE", "MOVING", "UNKNOWN"} =>
                  /\ Usable(last_position')
                  /\ has_position'
                  /\ last_position_time' = now]_vars

C39_Witness ==
    /\ state = "TRACKING"
    /\ pc = "send"
    /\ result = "NO_FIX"
    /\ next_probe_time = now + GPS_RETRY_DELAY
    /\ has_position
    /\ last_position_time < now
    /\ distance > 0
    /\ Len(idle_probes) > 1


\* A sequence of idle probes only.
AllIdle(q) == \A i \in 1..Len(q) : q[i]

\* C40: with usable fixes that are all IDLE and no motion interrupt, the
\* first probe is UNKNOWN, the tracker enters POWER_SAVE in the tick of the
\* 9th IDLE probe, 9 * 20 s after the first, never leaves it, and probes
\* there 3600 s after the previous probe, the first time 3600 s after the
\* entry.
C40_StillBike ==
    /\ <>[](state = "POWER_SAVE")
    /\ <>(state = "POWER_SAVE" /\ pc = "send" /\ result = "IDLE")
    /\ [][ProbeStep /\ result' # "NONE" =>
            (result' = "UNKNOWN" <=> ~has_position)]_vars
    /\ [][EndStep /\ state = "TRACKING" /\ state' = "POWER_SAVE" =>
            /\ now \in {t + TRACKING_IDLE_PROBES * TRACKING_GPS_PROBE_DELAY :
                            t \in {0, 1}}
            /\ Len(pushed) = TRACKING_IDLE_PROBES
            /\ AllIdle(pushed)]_vars
    /\ [][state = "POWER_SAVE" => state' = "POWER_SAVE"]_vars
    /\ [][ProbeStep /\ state = "POWER_SAVE" /\ result' # "NONE" =>
            /\ result' = "IDLE"
            /\ now = last_position_time + POWER_SAVE_GPS_PROBE_DELAY
            /\ next_probe_time' = now + POWER_SAVE_GPS_PROBE_DELAY]_vars

C40_Witness ==
    /\ state = "POWER_SAVE"
    /\ pc = "send"
    /\ result = "IDLE"
    /\ now >= TRACKING_IDLE_PROBES * TRACKING_GPS_PROBE_DELAY
                 + 2 * POWER_SAVE_GPS_PROBE_DELAY
    /\ Len(pushed) = TRACKING_IDLE_PROBES

====
